---------------------------- MODULE Spec2Model ----------------------------
(***************************************************************************)
(* The multi-tenant plugin of mosquitto_multi_tenant.c as a state machine. *)
(* Strings are sequences of one-character strings.  The plugin's five      *)
(* callbacks are operators computed as the C code computes them (lengths,   *)
(* snprintf bounds, strncpy without terminator, the regular expressions);   *)
(* the actions are the broker events that call them.                        *)
(***************************************************************************)
EXTENDS Integers, Sequences, FiniteSets

VARIABLES
    pc,               \* "start" | "active" | "failed" | "crashed"
    init_rc,          \* what mosquitto_plugin_init returned ("none" before it ran)
    registered,       \* the events a callback is registered for
    username_match,   \* static regex_t username_match: a compiled pattern or "uncompiled"
    shared_sub_match, \* static regex_t shared_sub_match
    client,           \* the broker's client records: username, id, connected
    subs,             \* the broker's subscription table
    live,             \* plugin allocations neither freed nor handed to the broker
    ev                \* the last callback invocation: its inputs and results

vars == <<pc, init_rc, registered, username_match, shared_sub_match, client, subs, live, ev>>

---------------------------------------------------------------------------
(* Bounds of the model *)

MaxUserLen == 3
MaxTopicLen == 3
MaxTailLen == 3
MaxIdLen == 1
MaxOpts == 1
MaxSubs == 1
MaxLive == 2

---------------------------------------------------------------------------
(* C strings and the libc calls the plugin uses *)

NUL == ""
NULL == <<"NULL">>

\* sizeof('@'), sizeof('/'): a character constant has type int in C
SizeofCharConst == 4

SHARE == <<"$", "s", "h", "a", "r", "e", "/">>
SLASH == <<"/">>
AT == <<"@">>

Min(a, b) == IF a < b THEN a ELSE b

Take(s, n) == SubSeq(s, 1, Min(n, Len(s)))

Drop(s, n) == SubSeq(s, n + 1, Len(s))

strlen(s) == Len(s)

\* 0 iff the first n characters agree (the sign of a difference is never used)
strncmp(a, b, n) == IF Take(a, n) = Take(b, n) THEN 0 ELSE 1

\* snprintf(buf, size, ...): at most size-1 characters of the formatted text
snprintf(size, text) == Take(text, size - 1)

\* malloc(n): n bytes of indeterminate content (junk), followed by the byte
\* that lies directly after the block
malloc(n, junk) == [size |-> n, bytes |-> [i \in 1..(n + 1) |-> junk]]

\* strncpy(buf, src, n): n bytes written, NUL padding only when src is shorter
strncpy(buf, src, n) ==
    [buf EXCEPT !.bytes = [i \in DOMAIN buf.bytes |->
        IF i <= n THEN (IF i <= Len(src) THEN src[i] ELSE NUL) ELSE buf.bytes[i]]]

\* buf[i] = v, with C's 0-based index
store(buf, i, v) == [buf EXCEPT !.bytes[i + 1] = v]

\* the store lands outside the block
overflows(buf, i) == i >= buf.size

\* the C string a pointer to buf denotes: the bytes before the first NUL
cstr(buf) ==
    LET nuls == {i \in DOMAIN buf.bytes : buf.bytes[i] = NUL}
        stop == IF nuls = {} THEN Len(buf.bytes) + 1
                ELSE CHOOSE i \in nuls : \A j \in nuls : i <= j
    IN  SubSeq(buf.bytes, 1, stop - 1)

StartsWith(s, p) == Len(s) >= Len(p) /\ SubSeq(s, 1, Len(p)) = p

---------------------------------------------------------------------------
(* What a call's environment decides: which allocation fails, the content  *)
(* of uninitialised heap bytes, and how undefined behaviour turns out.      *)

OomSites == {"none", "team", "new", "group", "topic"}
JunkBytes == {NUL, "#"}
UbOutcomes == {"benign", "abort"}

Benign == [oom |-> "none", junk |-> NUL, ub |-> "benign"]

\* at most one deviation from the benign environment per call
Envs ==
    {e \in [oom : OomSites, junk : JunkBytes, ub : UbOutcomes] :
        Cardinality({f \in {"oom", "junk", "ub"} : e[f] # Benign[f]}) <= 1}

---------------------------------------------------------------------------
(* The regular expressions (regcomp, regexec with REG_EXTENDED) *)

DefaultRegex == "^[a-z0-9]+@([a-z0-9]+)$"
CustomRegex == "^([a-z0-9]+)@"
BadRegex == "^([a-z0-9]+@"
SharedRegex == "^(\\$share/[^/]+)/(.+)$"
Uncompiled == "uncompiled"

Alnum ==
    {"a", "b", "c", "d", "e", "f", "g", "h", "i", "j", "k", "l", "m", "n", "o",
     "p", "q", "r", "s", "t", "u", "v", "w", "x", "y", "z",
     "0", "1", "2", "3", "4", "5", "6", "7", "8", "9"}

AllAlnum(s) == \A i \in 1..Len(s) : s[i] \in Alnum

\* regcomp: 0 and the compiled pattern, or an error code and no usable pattern
regcomp(pattern) ==
    IF pattern \in {DefaultRegex, CustomRegex, SharedRegex}
    THEN [rc |-> "0", preg |-> pattern]
    ELSE [rc |-> "REG_EPAREN", preg |-> Uncompiled]

NoMatch == [rc |-> "REG_NOMATCH", crashed |-> FALSE, pmatch |-> <<>>]

Matched(pmatch) == [rc |-> "0", crashed |-> FALSE, pmatch |-> pmatch]

\* Each pattern has at most one way to match a string; pmatch[k] is
\* [rm_so, rm_eo] of capture group k.

\* ^[a-z0-9]+@([a-z0-9]+)$
match_default(str) ==
    LET at == {k \in 2..(Len(str) - 1) :
                  /\ str[k] = "@"
                  /\ AllAlnum(SubSeq(str, 1, k - 1))
                  /\ AllAlnum(SubSeq(str, k + 1, Len(str)))}
    IN  IF at = {} THEN NoMatch
        ELSE LET k == CHOOSE k \in at : TRUE
             IN  Matched(<<[rm_so |-> k, rm_eo |-> Len(str)]>>)

\* ^([a-z0-9]+)@
match_custom(str) ==
    LET at == {k \in 2..Len(str) : str[k] = "@" /\ AllAlnum(SubSeq(str, 1, k - 1))}
    IN  IF at = {} THEN NoMatch
        ELSE LET k == CHOOSE k \in at : TRUE
             IN  Matched(<<[rm_so |-> 0, rm_eo |-> k - 1]>>)

\* the mutant of match_shared: [^/]* for [^/]+, an empty group name matches
match_shared_star(str) ==
    LET sl == {k \in 8..(Len(str) - 1) :
                  /\ str[k] = "/"
                  /\ \A j \in 8..(k - 1) : str[j] # "/"}
    IN  IF ~StartsWith(str, SHARE) \/ sl = {} THEN NoMatch
        ELSE LET k == CHOOSE k \in sl : TRUE
             IN  Matched(<<[rm_so |-> 0, rm_eo |-> k - 1],
                           [rm_so |-> k, rm_eo |-> Len(str)]>>)

\* ^(\$share/[^/]+)/(.+)$
match_shared(str) ==
    LET sl == {k \in 9..(Len(str) - 1) :
                  /\ str[k] = "/"
                  /\ \A j \in 8..(k - 1) : str[j] # "/"}
    IN  IF ~StartsWith(str, SHARE) \/ sl = {} THEN NoMatch
        ELSE LET k == CHOOSE k \in sl : TRUE
             IN  Matched(<<[rm_so |-> 0, rm_eo |-> k - 1],
                           [rm_so |-> k, rm_eo |-> Len(str)]>>)

\* regexec(&preg, str, n, pmatch, 0).  On a regex_t that regcomp did not fill
\* in, the call finds no match or the process dies in it.
regexec(preg, str, env) ==
    CASE preg = DefaultRegex -> match_default(str)
      [] preg = CustomRegex -> match_custom(str)
      [] preg = SharedRegex -> match_shared(str)
      [] OTHER -> IF env.ub = "abort" THEN [NoMatch EXCEPT !.crashed = TRUE]
                  ELSE NoMatch

---------------------------------------------------------------------------
(* The plugin's functions.  A callback yields the status it returns, the   *)
(* identifier, topic or filter the event holds afterwards, the team it      *)
(* resolved, the blocks it allocated and neither freed nor handed over,     *)
(* the allocation that failed in it, and whether the process died in it.    *)

MOSQ_ERR_SUCCESS == "MOSQ_ERR_SUCCESS"
MOSQ_ERR_NOMEM == "MOSQ_ERR_NOMEM"
NoReturn == "no return"

Ret(rc, out, team, leaked, oom) ==
    [rc |-> rc, out |-> out, team |-> team, leaked |-> leaked, oom |-> oom,
     crashed |-> FALSE]

Crash(in, team) ==
    [rc |-> NoReturn, out |-> in, team |-> team, leaked |-> {}, oom |-> "none",
     crashed |-> TRUE]

\* the mutant of get_team: an empty team, not NULL, when nothing matches
get_team_empty(preg, str, env) ==
    LET m == regexec(preg, str, env) IN
    IF m.crashed THEN [team |-> NULL, crashed |-> TRUE]
    ELSE IF m.rc = "0" THEN
        LET size == m.pmatch[1].rm_eo - m.pmatch[1].rm_so
            b0 == malloc(size + 1, env.junk)
            b1 == strncpy(b0, Drop(str, m.pmatch[1].rm_so), size)
            b2 == store(b1, size, NUL)
        IN  IF env.oom = "team" THEN [team |-> NULL, crashed |-> TRUE]
            ELSE [team |-> cstr(b2), crashed |-> FALSE]
    ELSE [team |-> <<>>, crashed |-> FALSE]

\* get_team: the text of capture group 1, or NULL.  The result of
\* mosquitto_malloc is not tested: strncpy through a null pointer ends the process.
get_team(preg, str, env) ==
    LET m == regexec(preg, str, env) IN
    IF m.crashed THEN [team |-> NULL, crashed |-> TRUE]
    ELSE IF m.rc = "0" THEN
        LET size == m.pmatch[1].rm_eo - m.pmatch[1].rm_so
            b0 == malloc(size + 1, env.junk)
            b1 == strncpy(b0, Drop(str, m.pmatch[1].rm_so), size)
            b2 == store(b1, size, NUL)
        IN  IF env.oom = "team" THEN [team |-> NULL, crashed |-> TRUE]
            ELSE [team |-> cstr(b2), crashed |-> FALSE]
    ELSE [team |-> NULL, crashed |-> FALSE]

\* the mutant of connect_callback: the length leaves no room for the "@"
connect_callback_short(username, id, preg, env) ==
    IF username = NULL THEN Ret(MOSQ_ERR_SUCCESS, id, NULL, {}, "none")
    ELSE
    LET t == get_team(preg, username, env) IN
    IF t.crashed THEN Crash(id, NULL)
    ELSE IF t.team = NULL THEN Ret(MOSQ_ERR_SUCCESS, id, NULL, {}, "none")
    ELSE
    LET team == t.team
        idlen == strlen(id)
        new_id_len == strlen(team) + idlen + 1
    IN  IF env.oom = "new" THEN Ret(MOSQ_ERR_NOMEM, id, team, {"team"}, "new")
        ELSE Ret(MOSQ_ERR_SUCCESS, snprintf(new_id_len, id \o AT \o team),
                 team, {}, "none")

connect_callback(username, id, preg, env) ==
    IF username = NULL THEN Ret(MOSQ_ERR_SUCCESS, id, NULL, {}, "none")
    ELSE
    LET t == get_team(preg, username, env) IN
    IF t.crashed THEN Crash(id, NULL)
    ELSE IF t.team = NULL THEN Ret(MOSQ_ERR_SUCCESS, id, NULL, {}, "none")
    ELSE
    LET team == t.team
        idlen == strlen(id)
        new_id_len == strlen(team) + SizeofCharConst + idlen + 1
    IN  IF env.oom = "new" THEN Ret(MOSQ_ERR_NOMEM, id, team, {"team"}, "new")
        ELSE Ret(MOSQ_ERR_SUCCESS, snprintf(new_id_len, id \o AT \o team),
                 team, {}, "none")

\* the mutant of callback_message_in: the topic goes on without the team
callback_message_in_bare(username, topic, preg, env) ==
    IF username = NULL THEN Ret(MOSQ_ERR_SUCCESS, topic, NULL, {}, "none")
    ELSE
    LET t == get_team(preg, username, env) IN
    IF t.crashed THEN Crash(topic, NULL)
    ELSE IF t.team = NULL THEN Ret(MOSQ_ERR_SUCCESS, topic, NULL, {}, "none")
    ELSE
    LET team == t.team
        new_topic_len == strlen(team) + SizeofCharConst + strlen(topic) + 1
    IN  IF env.oom = "new" THEN Ret(MOSQ_ERR_NOMEM, topic, team, {"team"}, "new")
        ELSE Ret(MOSQ_ERR_SUCCESS, snprintf(new_topic_len, topic), team, {}, "none")

callback_message_in(username, topic, preg, env) ==
    IF username = NULL THEN Ret(MOSQ_ERR_SUCCESS, topic, NULL, {}, "none")
    ELSE
    LET t == get_team(preg, username, env) IN
    IF t.crashed THEN Crash(topic, NULL)
    ELSE IF t.team = NULL THEN Ret(MOSQ_ERR_SUCCESS, topic, NULL, {}, "none")
    ELSE
    LET team == t.team
        new_topic_len == strlen(team) + SizeofCharConst + strlen(topic) + 1
    IN  IF env.oom = "new" THEN Ret(MOSQ_ERR_NOMEM, topic, team, {"team"}, "new")
        ELSE Ret(MOSQ_ERR_SUCCESS, snprintf(new_topic_len, team \o SLASH \o topic),
                 team, {}, "none")

callback_message_out(username, topic, preg, env) ==
    IF username = NULL THEN Ret(MOSQ_ERR_SUCCESS, topic, NULL, {}, "none")
    ELSE
    LET t == get_team(preg, username, env) IN
    IF t.crashed THEN Crash(topic, NULL)
    ELSE IF t.team = NULL THEN Ret(MOSQ_ERR_SUCCESS, topic, NULL, {}, "none")
    ELSE
    LET team == t.team
        team_len == strlen(team)
    IN  IF strlen(topic) <= team_len + 1
        THEN \* returns with the team still allocated
             Ret(MOSQ_ERR_SUCCESS, topic, team, {"team"}, "none")
        ELSE IF strncmp(team, topic, team_len) = 0 /\ topic[team_len + 1] = "/"
        THEN IF env.oom = "new"
             THEN Ret(MOSQ_ERR_NOMEM, topic, team, {"team"}, "new")
             ELSE Ret(MOSQ_ERR_SUCCESS, Drop(topic, team_len + 1), team, {}, "none")
        ELSE Ret(MOSQ_ERR_SUCCESS, topic, team, {}, "none")

\* The body shared, line for line, by callback_subscribe and
\* callback_unsubscribe once the team is resolved.
callback_subscribe(username, filter, preg, spreg, env) ==
    IF username = NULL THEN Ret(MOSQ_ERR_SUCCESS, filter, NULL, {}, "none")
    ELSE
    LET t == get_team(preg, username, env) IN
    IF t.crashed THEN Crash(filter, NULL)
    ELSE IF t.team = NULL THEN Ret(MOSQ_ERR_SUCCESS, filter, NULL, {}, "none")
    ELSE
    LET team == t.team IN
    IF strncmp(filter, SHARE, 7) = 0 THEN
        LET new_sub_len == strlen(team) + (SizeofCharConst * 2) + strlen(filter) + 1
            m == regexec(spreg, filter, env)
        IN  IF env.oom = "new" THEN Ret(MOSQ_ERR_NOMEM, filter, team, {"team"}, "new")
            ELSE IF m.crashed THEN Crash(filter, team)
            ELSE IF m.rc = "0" THEN
                LET group_size == m.pmatch[1].rm_eo - m.pmatch[1].rm_so
                    topic_size == m.pmatch[2].rm_eo - m.pmatch[2].rm_so
                    g0 == malloc(group_size + 1, env.junk)
                    t0 == malloc(topic_size + 1, env.junk)
                    g1 == strncpy(g0, Drop(filter, m.pmatch[1].rm_so), group_size)
                    share_group == store(g1, group_size, NUL)
                    t1 == strncpy(t0, Drop(filter, m.pmatch[2].rm_so), topic_size)
                    \* topic[topic_size+1] = 0: one byte past the block, and
                    \* topic[topic_size] keeps what malloc left there
                    topic == store(t1, topic_size + 1, NUL)
                IN  IF env.oom \in {"group", "topic"} THEN Crash(filter, team)
                    ELSE IF overflows(t1, topic_size + 1) /\ env.ub = "abort"
                    THEN Crash(filter, team)
                    ELSE Ret(MOSQ_ERR_SUCCESS,
                             snprintf(new_sub_len,
                                      cstr(share_group) \o SLASH \o team \o SLASH
                                          \o cstr(topic)),
                             team, {}, "none")
            ELSE \* returns with new_sub and the team still allocated
                 Ret(MOSQ_ERR_NOMEM, filter, team, {"team", "new_sub"}, "none")
    ELSE
        LET new_sub_len == strlen(team) + SizeofCharConst + strlen(filter) + 1
        IN  IF env.oom = "new" THEN Ret(MOSQ_ERR_NOMEM, filter, team, {"team"}, "new")
            ELSE Ret(MOSQ_ERR_SUCCESS, snprintf(new_sub_len, team \o SLASH \o filter),
                     team, {}, "none")

callback_unsubscribe(username, filter, preg, spreg, env) ==
    IF username = NULL THEN Ret(MOSQ_ERR_SUCCESS, filter, NULL, {}, "none")
    ELSE
    LET t == get_team(preg, username, env) IN
    IF t.crashed THEN Crash(filter, NULL)
    ELSE IF t.team = NULL THEN Ret(MOSQ_ERR_SUCCESS, filter, NULL, {}, "none")
    ELSE
    LET team == t.team IN
    IF strncmp(filter, SHARE, 7) = 0 THEN
        LET new_sub_len == strlen(team) + (SizeofCharConst * 2) + strlen(filter) + 1
            m == regexec(spreg, filter, env)
        IN  IF env.oom = "new" THEN Ret(MOSQ_ERR_NOMEM, filter, team, {"team"}, "new")
            ELSE IF m.crashed THEN Crash(filter, team)
            ELSE IF m.rc = "0" THEN
                LET group_size == m.pmatch[1].rm_eo - m.pmatch[1].rm_so
                    topic_size == m.pmatch[2].rm_eo - m.pmatch[2].rm_so
                    g0 == malloc(group_size + 1, env.junk)
                    t0 == malloc(topic_size + 1, env.junk)
                    g1 == strncpy(g0, Drop(filter, m.pmatch[1].rm_so), group_size)
                    share_group == store(g1, group_size, NUL)
                    t1 == strncpy(t0, Drop(filter, m.pmatch[2].rm_so), topic_size)
                    topic == store(t1, topic_size + 1, NUL)
                IN  IF env.oom \in {"group", "topic"} THEN Crash(filter, team)
                    ELSE IF overflows(t1, topic_size + 1) /\ env.ub = "abort"
                    THEN Crash(filter, team)
                    ELSE Ret(MOSQ_ERR_SUCCESS,
                             snprintf(new_sub_len,
                                      cstr(share_group) \o SLASH \o team \o SLASH
                                          \o cstr(topic)),
                             team, {}, "none")
            ELSE Ret(MOSQ_ERR_NOMEM, filter, team, {"team", "new_sub"}, "none")
    ELSE
        LET new_sub_len == strlen(team) + SizeofCharConst + strlen(filter) + 1
        IN  IF env.oom = "new" THEN Ret(MOSQ_ERR_NOMEM, filter, team, {"team"}, "new")
            ELSE Ret(MOSQ_ERR_SUCCESS, snprintf(new_sub_len, team \o SLASH \o filter),
                     team, {}, "none")

---------------------------------------------------------------------------
(* The host broker: plugin options, clients, events *)

Clients == {"c1", "c2"}
NoClient == "nobody"

EVENTS == <<"connect", "message_in", "message_out", "subscribe", "unsubscribe">>

StringsUpTo(chars, n) == UNION {[1..k -> chars] : k \in 0..n}

Usernames == {NULL} \cup StringsUpTo({"a", "b", "@"}, MaxUserLen)
Ids == StringsUpTo({"c", "@"}, MaxIdLen)
Topics == StringsUpTo({"a", "/"}, MaxTopicLen)
Filters == Topics \cup {SHARE \o tail : tail \in StringsUpTo({"g", "/"}, MaxTailLen)}

\* the plugin_opt_* lines of the broker configuration
OptKeys == {"regex", "Regex", "other"}
OptValues == {CustomRegex, BadRegex}
Options == UNION {[1..k -> [key : OptKeys, value : OptValues]] : k \in 0..MaxOpts}

tolower(key) == IF key = "Regex" THEN "regex" ELSE key

strcasecmp(a, b) == IF tolower(a) = tolower(b) THEN 0 ELSE 1

NoEvent ==
    [kind |-> "none", client |-> NoClient, from |-> NoClient, orig |-> NULL,
     in |-> NULL, out |-> NULL, rc |-> NoReturn, team |-> NULL, leaked |-> {},
     oom |-> "none"]

InitWith(users) ==
    /\ pc = "start"
    /\ init_rc = "none"
    /\ registered = {}
    /\ username_match = Uncompiled
    /\ shared_sub_match = Uncompiled
    /\ client \in [Clients -> [username : users, id : {NULL}, connected : {FALSE}]]
    /\ subs = {}
    /\ live = 0
    /\ ev = NoEvent

\* mosquitto_plugin_init: every "regex" option is compiled over the last one,
\* the default when there is none; no result of regcomp is looked at.  The
\* callbacks are registered in order until mosquitto_callback_register fails
\* (failAt: the registration the broker refuses, 0 for none).
mosquitto_plugin_init(opts, failAt) ==
    LET hits == {i \in 1..Len(opts) : strcasecmp(opts[i].key, "regex") = 0}
        last == CHOOSE i \in hits : \A j \in hits : j <= i
        found == IF hits = {} THEN 0 ELSE 1
        user == IF found = 0 THEN regcomp(DefaultRegex) ELSE regcomp(opts[last].value)
        shared == regcomp(SharedRegex)
    IN  [username_match |-> user.preg,
         shared_sub_match |-> shared.preg,
         registered |-> {EVENTS[i] : i \in {j \in 1..Len(EVENTS) :
                                              failAt = 0 \/ j < failAt}},
         rc |-> IF failAt = 0 THEN MOSQ_ERR_SUCCESS ELSE MOSQ_ERR_NOMEM]

PluginInit(opts, failAt) ==
    /\ pc = "start"
    /\ LET r == mosquitto_plugin_init(opts, failAt) IN
        /\ username_match' = r.username_match
        /\ shared_sub_match' = r.shared_sub_match
        /\ registered' = r.registered
        /\ init_rc' = r.rc
        /\ pc' = IF r.rc = MOSQ_ERR_SUCCESS THEN "active" ELSE "failed"
    /\ UNCHANGED <<client, subs, live, ev>>

\* What every callback invocation leaves behind.
Invoked(kind, c, from, orig, in, r) ==
    /\ ev' = [kind |-> kind, client |-> c, from |-> from, orig |-> orig, in |-> in,
              out |-> r.out, rc |-> r.rc, team |-> r.team, leaked |-> r.leaked,
              oom |-> r.oom]
    /\ pc' = IF r.crashed THEN "crashed" ELSE pc
    /\ live' = live + Cardinality(r.leaked)
    /\ live' <= MaxLive
    /\ UNCHANGED <<init_rc, registered, username_match, shared_sub_match>>

\* MOSQ_EVT_CONNECT: the client's CONNECT carries the identifier id; the
\* callback replaces it through mosquitto_set_clientid.
Connect(c, id, env) ==
    /\ pc = "active" /\ "connect" \in registered
    /\ ~client[c].connected
    /\ LET r == connect_callback(client[c].username, id, username_match, env) IN
        /\ Invoked("connect", c, NoClient, NULL, id, r)
        /\ client' = IF r.rc = MOSQ_ERR_SUCCESS
                     THEN [client EXCEPT ![c].id = r.out, ![c].connected = TRUE]
                     ELSE client
    /\ UNCHANGED subs

\* MOSQ_EVT_MESSAGE_IN: client c publishes to topic
MessageIn(c, topic, env) ==
    /\ pc = "active" /\ "message_in" \in registered
    /\ LET r == callback_message_in(client[c].username, topic, username_match, env)
       IN  Invoked("message_in", c, c, topic, topic, r)
    /\ UNCHANGED <<client, subs>>

\* MOSQ_EVT_MESSAGE_OUT: the broker is about to send client c a message on
\* topic (published by from as orig, when the broker knows)
MessageOut(c, from, orig, topic, env) ==
    /\ pc = "active" /\ "message_out" \in registered
    /\ LET r == callback_message_out(client[c].username, topic, username_match, env)
       IN  Invoked("message_out", c, from, orig, topic, r)
    /\ UNCHANGED <<client, subs>>

\* the message the last message-in event accepted goes out to client c
Deliver(c, env) ==
    /\ ev.kind = "message_in" /\ ev.rc = MOSQ_ERR_SUCCESS
    /\ MessageOut(c, ev.client, ev.in, ev.out, env)

\* MOSQ_EVT_SUBSCRIBE: on success the broker installs the rewritten filter
Subscribe(c, filter, env) ==
    /\ pc = "active" /\ "subscribe" \in registered
    /\ LET r == callback_subscribe(client[c].username, filter, username_match,
                                   shared_sub_match, env) IN
        /\ Invoked("subscribe", c, NoClient, NULL, filter, r)
        /\ subs' = IF r.rc = MOSQ_ERR_SUCCESS
                   THEN subs \cup {[client |-> c, orig |-> filter, filter |-> r.out]}
                   ELSE subs
    /\ Cardinality(subs') <= MaxSubs
    /\ UNCHANGED client

\* MOSQ_EVT_UNSUBSCRIBE: on success the broker removes the rewritten filter
Unsubscribe(c, filter, env) ==
    /\ pc = "active" /\ "unsubscribe" \in registered
    /\ LET r == callback_unsubscribe(client[c].username, filter, username_match,
                                     shared_sub_match, env) IN
        /\ Invoked("unsubscribe", c, NoClient, NULL, filter, r)
        /\ subs' = IF r.rc = MOSQ_ERR_SUCCESS
                   THEN {s \in subs : ~(s.client = c /\ s.filter = r.out)}
                   ELSE subs
    /\ UNCHANGED client

---------------------------------------------------------------------------
(* Spec: one client, one callback invocation on every input within the     *)
(* bounds (and a published message handed back to its publisher).           *)

Init == InitWith(Usernames) /\ client["c2"].username = NULL

Once == ev.kind = "none"

Next ==
    \/ \E opts \in Options, failAt \in 0..Len(EVENTS) : PluginInit(opts, failAt)
    \/ \E id \in Ids, env \in Envs : Once /\ Connect("c1", id, env)
    \/ \E topic \in Topics, env \in Envs : Once /\ MessageIn("c1", topic, env)
    \/ \E env \in Envs : Deliver("c1", env)
    \/ \E topic \in Topics, env \in Envs :
          Once /\ MessageOut("c1", NoClient, NULL, topic, env)
    \/ \E filter \in Filters, env \in Envs : Once /\ Subscribe("c1", filter, env)
    \/ \E filter \in Filters, env \in Envs : Once /\ Unsubscribe("c1", filter, env)

Spec == Init /\ [][Next]_vars

---------------------------------------------------------------------------
(* SpecSys: two clients of a broker whose plugin uses the default pattern; *)
(* events interleave, the broker keeps the subscriptions and routes each    *)
(* accepted message to the subscribers whose filter matches its topic.      *)

RECURSIVE Levels(_)
\* a topic or filter split at its "/" separators
Levels(s) ==
    LET cut == {i \in 1..Len(s) : s[i] = "/"} IN
    IF cut = {} THEN <<s>>
    ELSE LET i == CHOOSE i \in cut : \A j \in cut : i <= j
         IN  <<SubSeq(s, 1, i - 1)>> \o Levels(Drop(s, i))

RECURSIVE LevelsMatch(_, _)
\* MQTT matching, level by level: "+" is any one level, "#" the rest
LevelsMatch(f, t) ==
    IF f = <<>> THEN t = <<>>
    ELSE IF Head(f) = <<"#">> THEN TRUE
    ELSE IF t = <<>> THEN FALSE
    ELSE (Head(f) = <<"+">> \/ Head(f) = Head(t)) /\ LevelsMatch(Tail(f), Tail(t))

\* a subscription "$share/<group>/<filter>" receives what <filter> matches
FilterMatches(filter, topic) ==
    LET f == Levels(filter) IN
    IF Len(f) >= 3 /\ Head(f) = Take(SHARE, 6)
    THEN LevelsMatch(Tail(Tail(f)), Levels(topic))
    ELSE LevelsMatch(f, Levels(topic))

Routed(c) == \E s \in subs : s.client = c /\ FilterMatches(s.filter, ev.out)

SysUsernames == {<<"a", "@", "a">>, <<"b", "@", "b">>, <<"a", "b">>}
SysIds == {<<"c">>}
SysTopics == {<<"x">>, <<"b", "/", "x">>}
SysFilters == {<<"#">>, SHARE \o <<"g", "/", "#">>, SHARE \o <<"g">>}
SysEnvs == {e \in Envs : e.ub = "benign" /\ e.oom \in {"none", "new"}}

InitSys == InitWith(SysUsernames)

NextSys ==
    \/ \E failAt \in 0..Len(EVENTS) : PluginInit(<<>>, failAt)
    \/ \E c \in Clients, id \in SysIds, env \in SysEnvs : Connect(c, id, env)
    \/ \E c \in Clients, topic \in SysTopics, env \in SysEnvs :
          client[c].connected /\ MessageIn(c, topic, env)
    \/ \E c \in Clients, env \in SysEnvs :
          client[c].connected /\ Routed(c) /\ Deliver(c, env)
    \/ \E c \in Clients, filter \in SysFilters, env \in SysEnvs :
          client[c].connected /\ Subscribe(c, filter, env)
    \/ \E c \in Clients, filter \in SysFilters, env \in SysEnvs :
          client[c].connected /\ Unsubscribe(c, filter, env)

SpecSys == InitSys /\ [][NextSys]_vars

---------------------------------------------------------------------------
(* The properties *)

Callbacks == {"connect", "message_in", "message_out", "subscribe", "unsubscribe"}

Returned == ev.kind \in Callbacks /\ ev.rc # NoReturn

\* the call returned and none of its allocations failed
Completed == Returned /\ ev.oom = "none"

Contains(s, sub) ==
    \E i \in 1..(Len(s) - Len(sub) + 1) : SubSeq(s, i, i + Len(sub) - 1) = sub

\* The teams a pattern captures from a username, by splitting the username
\* at an "@" (no team for an absent username).
TeamsOf(pattern, u) ==
    IF u = NULL THEN {}
    ELSE {SubSeq(u, 1, k - 1) : k \in {k \in 1..Len(u) :
              /\ pattern = CustomRegex /\ u[k] = "@" /\ k > 1
              /\ AllAlnum(SubSeq(u, 1, k - 1))}}
         \cup
         {SubSeq(u, k + 1, Len(u)) : k \in {k \in 1..Len(u) :
              /\ pattern = DefaultRegex /\ u[k] = "@" /\ 1 < k /\ k < Len(u)
              /\ AllAlnum(SubSeq(u, 1, k - 1))
              /\ AllAlnum(SubSeq(u, k + 1, Len(u)))}}

\* F is "$share/" + group + "/" + inner with group and inner not empty, no
\* "/" in group: the splits <<group, inner>> of F (at most one)
SharedSplits(F) ==
    {<<SubSeq(F, 8, k - 1), SubSeq(F, k + 1, Len(F))>> :
        k \in {k \in 9..(Len(F) - 1) :
                  /\ StartsWith(F, SHARE)
                  /\ F[k] = "/"
                  /\ ~Contains(SubSeq(F, 8, k - 1), SLASH)}}

Compiled == username_match \in {DefaultRegex, CustomRegex}

\* the username of the client an event names
UserOf(c) == IF c \in Clients THEN client[c].username ELSE NULL

\* the teams of client c under the pattern in use
ClientTeams(c) == TeamsOf(username_match, UserOf(c))

C2_RoundTrip ==
    (/\ ev.kind = "message_out" /\ Completed
     /\ ev.from = ev.client /\ ev.team # NULL
     /\ ~Contains(ev.orig, SHARE))
        => ev.out = ev.orig

\* C3 (Spec): message-out rule.  For a resolved team T and any topic P the
\* callback returns success; the topic is P without its leading T + "/" when P
\* starts with T + "/" (also when P is exactly T + "/"), and P otherwise.
C3_MessageOutRule ==
    (ev.kind = "message_out" /\ Completed /\ ev.team # NULL)
        => /\ ev.rc = MOSQ_ERR_SUCCESS
           /\ ev.out = IF StartsWith(ev.in, ev.team \o SLASH)
                       THEN Drop(ev.in, Len(ev.team) + 1)
                       ELSE ev.in

\* C4 (Spec): shared-subscription rewrite.  For a resolved team T and a filter
\* "$share/<group>/<inner>" (group and inner not empty, no "/" in group)
\* subscribe returns success and the filter is exactly
\* "$share/<group>/" + T + "/" + <inner>, nothing lost and nothing appended.
C4_SharedRewrite ==
    (ev.kind = "subscribe" /\ Completed /\ ev.team # NULL)
        => \A sp \in SharedSplits(ev.in) :
              /\ ev.rc = MOSQ_ERR_SUCCESS
              /\ ev.out = SHARE \o sp[1] \o SLASH \o ev.team \o SLASH \o sp[2]

\* C5 (Spec): malformed shared filter.  For a client with a resolved team, a
\* filter that begins with "$share/" and has no <group>/<inner> split makes
\* subscribe and unsubscribe return a failure status with the event's filter
\* left as it was.
C5_MalformedShared ==
    (/\ ev.kind \in {"subscribe", "unsubscribe"} /\ Returned
     /\ ClientTeams(ev.client) # {}
     /\ StartsWith(ev.in, SHARE) /\ SharedSplits(ev.in) = {})
        => ev.rc # MOSQ_ERR_SUCCESS /\ ev.out = ev.in

\* C5's case: "$share//g" (an empty group name) was refused on unsubscribe
\* with every allocation having succeeded
C5_Witness ==
    /\ ev.kind = "unsubscribe" /\ Completed
    /\ ClientTeams(ev.client) # {}
    /\ ev.in = SHARE \o <<"/", "g">>
    /\ ev.rc = MOSQ_ERR_NOMEM /\ ev.out = ev.in

\* C6 (Spec): initialization fails safe.  Once mosquitto_plugin_init has run
\* with a pattern that did not compile, it has returned an error and no
\* callback is registered; callbacks are registered only with both patterns
\* compiled.
C6_InitFailsSafe ==
    (pc # "start" /\ (username_match = Uncompiled \/ shared_sub_match = Uncompiled))
        => init_rc # MOSQ_ERR_SUCCESS /\ registered = {}

\* C7 (Spec): pass-through.  When the client's username is absent or does not
\* match the compiled tenant pattern, the callback returns success, the
\* event's topic or filter is what it received, and on connect the client
\* keeps the identifier it sent.
C7_PassThrough ==
    (ev.kind \in Callbacks /\ Compiled /\ ClientTeams(ev.client) = {})
        => /\ ev.rc = MOSQ_ERR_SUCCESS
           /\ ev.out = ev.in
           /\ ev.kind = "connect" => client[ev.client].id = ev.in

\* C7's case: an event of a client whose username is there and has no team
\* ("a@": nothing after the "@") passed through
C7_Witness ==
    /\ ev.kind = "message_in" /\ username_match = DefaultRegex
    /\ UserOf(ev.client) = <<"a", "@">>
    /\ ev.in = <<"a", "/", "a">> /\ ev.out = ev.in
    /\ ev.rc = MOSQ_ERR_SUCCESS

\* C8 (Spec): connect identifier rewrite.  For an identifier ID and a username
\* with team T (the team the pattern captures), connect_callback, when its
\* allocation succeeds, returns success and the client's identifier is exactly
\* ID + "@" + T.
C8_ConnectRewrite ==
    (ev.kind = "connect" /\ Completed /\ Compiled)
        => \A T \in ClientTeams(ev.client) :
              /\ ev.rc = MOSQ_ERR_SUCCESS
              /\ ev.team = T
              /\ client[ev.client].id = ev.in \o AT \o T
              /\ client[ev.client].connected

\* C8's case: a non-empty identifier of a client with a team was rewritten
C8_Witness ==
    /\ ev.kind = "connect" /\ Completed /\ Compiled
    /\ ClientTeams(ev.client) # {}
    /\ ev.in # <<>>
    /\ Len(client[ev.client].id) = Len(ev.in) + 1 + Len(ev.team)

\* C9 (SpecSys): unsubscribe mirrors subscribe.  After a client's unsubscribe
\* from F has succeeded, no filter that a subscribe to F by that client
\* installed is left in the broker.
C9_UnsubscribeMirrors ==
    (ev.kind = "unsubscribe" /\ ev.rc = MOSQ_ERR_SUCCESS)
        => ~\E s \in subs : s.client = ev.client /\ s.orig = ev.in

\* C10 (Spec): per-call ownership.  Every callback that returns has freed the
\* team and every scratch buffer it allocated, so no plugin allocation that
\* the broker does not own is live.
C10_NothingLeaks ==
    Returned => ev.leaked = {} /\ live = 0

=============================================================================
